---------------------------- MODULE Spec2Model ----------------------------
(***************************************************************************)
(* Model of backend/main.py: the /events ingestion handler (create_event), *)
(* the WebSocket ConnectionManager and the /ws endpoint that drives it.    *)
(*                                                                         *)
(* The handlers are coroutines on one event loop: a handler runs until it  *)
(* awaits.  Every action below is one run of a handler between two awaits  *)
(* or between two calls of an external service (archive, record store,     *)
(* stream bus, search index), which other workers share.                   *)
(***************************************************************************)
EXTENDS Integers, Sequences, FiniteSets, TLC

\* Bounds of the model.
NumSubs == 2
NumConns == 2
\* The environment makes at most MaxFaults things go wrong in one run: calls
\* of external services that raise, and client channels that go down.
MaxFaults == 2
\* The queries are asked of a table of at most MaxRows rows.
MaxRows == 3

Subs == 1..NumSubs
Conns == 1..NumConns

\* Python's None, for the optional string ipfs_hash.
None == "None"

\* EventModel values (event_type, user_id, action) a caller may post.
Events ==
  { [event_type |-> "login", user_id |-> "u1", action |-> "signed in"],
    [event_type |-> "logout", user_id |-> "u2", action |-> "signed out"] }

NoEvent == [event_type |-> "", user_id |-> "", action |-> ""]

\* No response produced yet (status 0); 200 is the returned dict, 500 the
\* HTTPException of the outer except clause.
NoResponse == [status |-> 0, id |-> 0, ipfs_hash |-> None]

\* A submission's step log before any step has run.
NoSteps == [archive |-> "none", persist |-> "none", row |-> 0, kafka |-> "none",
            es |-> "none", broadcast |-> "none"]

VARIABLES
  init_failed,         \* which constructor of the services block raised
  kafka_producer,      \* module globals: TRUE when the handle is not None
  es,
  w3,
  ipfs_client,
  store,               \* table audit_records, in insertion order
  stream,              \* messages sent to topic 'audit-events'
  index,               \* documents of index "audit_records"
  active_connections,  \* manager.active_connections
  ws_pc,               \* position of each connection's websocket_endpoint
  chan,                \* state of each connection's channel to its client
  disconnect_exc,      \* what the last ConnectionManager.disconnect raised
  pc,                  \* position of each create_event call
  event,               \* its argument
  ipfs_hash,           \* its local ipfs_hash
  audit_record,        \* its local audit_record
  response,            \* what the caller got
  steps,               \* outcome of each step the call has run
  bidx,                \* position of the iterator of broadcast's for loop
  snapshot,            \* members of the active set when broadcast was called
  sends,               \* send_text calls made by the call's broadcast
  query,               \* the last search or listing call and its answer
  health               \* the last answer of /health

vars == << init_failed, kafka_producer, es, w3, ipfs_client, store, stream,
           index, active_connections, ws_pc, chan, disconnect_exc, pc, event,
           ipfs_hash, audit_record, response, steps, bidx, snapshot, sends,
           query, health >>

services == << init_failed, kafka_producer, es, w3, ipfs_client >>
sinks == << stream, index >>
registry == << active_connections, ws_pc, chan, disconnect_exc >>
locals == << event, ipfs_hash, audit_record >>
bcast == << bidx, snapshot, sends >>
queries == << query, health >>

----------------------------------------------------------------------------
\* Helpers on Python lists.

Members(list) == { list[i] : i \in 1..Len(list) }

\* list.index(x) + 1, or 0 when x is not in the list.
IndexOf(list, x) ==
  IF x \in Members(list)
    THEN CHOOSE i \in 1..Len(list) : list[i] = x /\ \A j \in 1..(i - 1) : list[j] # x
    ELSE 0

\* The list without its element at position i.
RemoveAt(list, i) ==
  [ j \in 1..(Len(list) - 1) |-> IF j < i THEN list[j] ELSE list[j + 1] ]


----------------------------------------------------------------------------
\* Services initialization: one try block around the four constructors; the
\* except clause sets every handle to None.

Constructors == << "kafka", "es", "w3", "ipfs" >>

\* The value of a module handle after the block, given the constructor that
\* raised ("none" when none did).
HandleAfterInit(name, failed) == failed = "none"

\* No search or listing call made yet.
NoQuery == [op |-> "none", q |-> "", limit |-> 0, event_type |-> "", user_id |-> "",
            index_ok |-> TRUE, status |-> 0, hits |-> {}, records |-> << >>]

\* /health not called yet.
NoHealth == [status |-> "none", database |-> FALSE, kafka |-> FALSE,
             elasticsearch |-> FALSE, ethereum |-> FALSE, ipfs |-> FALSE]

NoRecord == [id |-> 0, event_type |-> "", user_id |-> "", action |-> "",
             timestamp |-> 0, ipfs_hash |-> None]

Init ==
  /\ init_failed \in {"none"} \cup Members(Constructors)
  /\ kafka_producer = HandleAfterInit("kafka", init_failed)
  /\ es = HandleAfterInit("es", init_failed)
  /\ w3 = HandleAfterInit("w3", init_failed)
  /\ ipfs_client = HandleAfterInit("ipfs", init_failed)
  /\ store = << >>
  /\ stream = << >>
  /\ index = {}
  /\ active_connections = << >>
  /\ ws_pc = [c \in Conns |-> "new"]
  /\ chan = [c \in Conns |-> "up"]
  /\ disconnect_exc = "none"
  /\ pc = [s \in Subs |-> "idle"]
  /\ event = [s \in Subs |-> NoEvent]
  /\ ipfs_hash = [s \in Subs |-> None]
  /\ audit_record = [s \in Subs |-> NoRecord]
  /\ response = [s \in Subs |-> NoResponse]
  /\ steps = [s \in Subs |-> NoSteps]
  /\ bidx = [s \in Subs |-> 0]
  /\ snapshot = [s \in Subs |-> {}]
  /\ sends = [s \in Subs |-> << >>]
  /\ query = NoQuery
  /\ health = NoHealth

----------------------------------------------------------------------------
\* The failures injected so far: the external calls that raised and the
\* channels that went down.
Faults ==
  Cardinality({ s \in Subs : steps[s].archive = "failed" })
  + Cardinality({ s \in Subs : steps[s].persist \in {"commit_failed", "refresh_failed"} })
  + Cardinality({ s \in Subs : steps[s].kafka = "failed" })
  + Cardinality({ s \in Subs : steps[s].es = "failed" })
  + Cardinality({ c \in Conns : chan[c] = "down" })

\* The environment may make one more thing go wrong.
MayFail == Faults < MaxFaults

----------------------------------------------------------------------------
\* create_event

\* ipfs_client.add_json(event_data): the content identifier of the payload.
Cid(e) == "Qm-" \o e.event_type \o "-" \o e.user_id \o "-" \o e.action

\* The outcome of the archive step: the handle is None, add_json raised, or
\* add_json returned.
ArchiveOutcome(ok) ==
  IF ~ipfs_client THEN "absent" ELSE IF ok THEN "ok" ELSE "failed"

\* The local ipfs_hash after the archive step.
ArchiveRef(e, outcome) == IF outcome = "ok" THEN Cid(e) ELSE None

\* A handler whose archive failure leaves through the outer except clause.
PcAfterArchiveAborting(outcome) == IF outcome = "failed" THEN "done" ELSE "persist"

\* A handler that goes back to the archive step after add_json raised.
PcAfterArchiveRetrying(outcome) == IF outcome = "failed" THEN "idle" ELSE "persist"

\* Where create_event continues after the archive step: the inner except
\* clause only logs.
PcAfterArchive(outcome) == "persist"

\* Step 1: ipfs_hash = None; if ipfs_client: try add_json except log.
Archive(s, e, ok) ==
  /\ pc[s] = "idle"
  /\ ok \/ MayFail
  /\ LET outcome == ArchiveOutcome(ok) IN
       /\ event' = [event EXCEPT ![s] = e]
       /\ ipfs_hash' = [ipfs_hash EXCEPT ![s] = ArchiveRef(e, outcome)]
       /\ steps' = [steps EXCEPT ![s].archive = outcome]
       /\ pc' = [pc EXCEPT ![s] = PcAfterArchive(outcome)]
  /\ UNCHANGED << services, queries, store, sinks, registry, audit_record, response, bcast >>

\* AuditRecord(event_type=..., user_id=..., action=..., ipfs_hash=ipfs_hash):
\* the id is assigned by the store, the timestamp by the column default.
NewAuditRecord(e, hash) ==
  [id |-> 0, event_type |-> e.event_type, user_id |-> e.user_id,
   action |-> e.action, timestamp |-> 0, ipfs_hash |-> hash]

\* Column default datetime.utcnow, read when the row is inserted: a later
\* insert reads a later time (an insert takes longer than the clock's
\* resolution).
UtcNow(table) == (IF table = << >> THEN 0 ELSE table[Len(table)].timestamp) + 1

\* The primary key the table assigns to the next inserted row.
NextId(table) == Len(table) + 1

\* The table after db.add(audit_record); db.commit().
Committed(table, rec) ==
  Append(table, [rec EXCEPT !.id = NextId(table), !.timestamp = UtcNow(table)])

\* The body of the outer except clause: HTTPException(status_code=500).
Error500 == [status |-> 500, id |-> 0, ipfs_hash |-> None]

\* A handler that logs a failed commit and goes on.
PcAfterPersistSwallowed(outcome) == "publish"

\* Where create_event continues after db.add / db.commit / db.refresh: any
\* exception leaves through the outer except clause.
PcAfterPersist(outcome) == IF outcome = "ok" THEN "publish" ELSE "done"

\* Step 2: db.add, db.commit, db.refresh.  outcome says which call raised:
\* "commit_failed" (nothing stored), "refresh_failed" (the row is stored, the
\* reload raised) or "ok".
Persist(s, outcome) ==
  /\ pc[s] = "persist"
  /\ outcome = "ok" \/ MayFail
  /\ LET rec == NewAuditRecord(event[s], ipfs_hash[s]) IN
       /\ store' = IF outcome = "commit_failed" THEN store ELSE Committed(store, rec)
       /\ audit_record' = [audit_record EXCEPT ![s] =
            IF outcome = "ok" THEN Committed(store, rec)[NextId(store)] ELSE rec]
  /\ response' = [response EXCEPT ![s] = IF outcome = "ok" THEN @ ELSE Error500]
  /\ steps' = [steps EXCEPT ![s].persist = outcome,
                            ![s].row = IF outcome = "commit_failed" THEN 0 ELSE NextId(store)]
  /\ pc' = [pc EXCEPT ![s] = PcAfterPersist(outcome)]
  /\ UNCHANGED << services, queries, sinks, registry, event, ipfs_hash, bcast >>

\* A publisher that labels its message with the id of the newest row.
KafkaDataNewestRow(s) ==
  [id |-> Len(store), event_type |-> event[s].event_type,
   user_id |-> event[s].user_id, action |-> event[s].action,
   timestamp |-> audit_record[s].timestamp, ipfs_hash |-> ipfs_hash[s]]

\* kafka_data of line 240.
KafkaData(s) ==
  [id |-> audit_record[s].id, event_type |-> event[s].event_type,
   user_id |-> event[s].user_id, action |-> event[s].action,
   timestamp |-> audit_record[s].timestamp, ipfs_hash |-> ipfs_hash[s]]

\* The outcome of a best-effort sink call guarded by "if handle:".
SinkOutcome(handle, ok) ==
  IF ~handle THEN "absent" ELSE IF ok THEN "ok" ELSE "failed"

\* Step 3a: if kafka_producer: try send('audit-events', kafka_data) except log.
Publish(s, ok) ==
  /\ pc[s] = "publish"
  /\ ok \/ MayFail
  /\ LET outcome == SinkOutcome(kafka_producer, ok) IN
       /\ stream' = IF outcome = "ok" THEN Append(stream, KafkaData(s)) ELSE stream
       /\ steps' = [steps EXCEPT ![s].kafka = outcome]
  /\ pc' = [pc EXCEPT ![s] = "index"]
  /\ UNCHANGED << services, queries, store, index, registry, locals, response, bcast >>

\* The document of line 256: id=audit_record.id and its body.
EsDoc(s) ==
  [doc_id |-> audit_record[s].id,
   body |-> [id |-> audit_record[s].id, event_type |-> event[s].event_type,
             user_id |-> event[s].user_id, action |-> event[s].action,
             timestamp |-> audit_record[s].timestamp, ipfs_hash |-> ipfs_hash[s]]]

\* es.index(index=..., id=..., body=...): insert or replace by document id.
Upsert(docs, doc) == { d \in docs : d.doc_id # doc.doc_id } \cup {doc}

\* Step 3b: if es: try es.index(...) except log.
IndexDoc(s, ok) ==
  /\ pc[s] = "index"
  /\ ok \/ MayFail
  /\ LET outcome == SinkOutcome(es, ok) IN
       /\ index' = IF outcome = "ok" THEN Upsert(index, EsDoc(s)) ELSE index
       /\ steps' = [steps EXCEPT ![s].es = outcome]
  /\ pc' = [pc EXCEPT ![s] = "broadcast"]
  /\ UNCHANGED << services, queries, store, stream, registry, locals, response, bcast >>

\* The message of line 272.
Payload(s) ==
  [type |-> "new_event",
   data |-> [id |-> audit_record[s].id, event_type |-> event[s].event_type,
             user_id |-> event[s].user_id, action |-> event[s].action,
             timestamp |-> audit_record[s].timestamp]]

\* A handler that answers with the newest row of the table instead of its own.
SuccessNewestRow(s) == [status |-> 200, id |-> Len(store), ipfs_hash |-> ipfs_hash[s]]

\* The returned dict of line 283.
Success(s) == [status |-> 200, id |-> audit_record[s].id, ipfs_hash |-> ipfs_hash[s]]

\* connection.send_text(message) inside try / except: pass.  The send fails
\* when the connection's channel is down; the except clause does nothing.
SendText(s, c) == [conn |-> c, ok |-> chan[c] = "up", payload |-> Payload(s)]

\* The active set after send_text on connection c ended (ok or not).
AfterSend(list, c, ok) == list

\* A broadcast without the try: a failing send_text raises out of the loop.
PcAfterSendRaising(ok) == IF ok THEN "sending" ELSE "done"

\* Where broadcast continues after send_text: the bare except clause passes,
\* so the loop goes on after a failed send as after a good one.
PcAfterSend(ok) == "sending"

\* One turn of "for connection in self.active_connections": the list iterator
\* is at position i (0-based).  Either the next send starts, or the loop is
\* over, broadcast returns and create_event returns its dict.
LoopTurn(s, i) ==
  IF i < Len(active_connections)
    THEN LET c == active_connections[i + 1]
             m == SendText(s, c) IN
         /\ sends' = [sends EXCEPT ![s] = Append(@, m)]
         /\ active_connections' = AfterSend(active_connections, c, m.ok)
         /\ bidx' = [bidx EXCEPT ![s] = i + 1]
         /\ pc' = [pc EXCEPT ![s] = PcAfterSend(m.ok)]
         /\ steps' = [steps EXCEPT ![s].broadcast = "called"]
         /\ UNCHANGED response
    ELSE /\ response' = [response EXCEPT ![s] = Success(s)]
         /\ pc' = [pc EXCEPT ![s] = "done"]
         /\ steps' = [steps EXCEPT ![s].broadcast = "returned"]
         /\ UNCHANGED << sends, active_connections, bidx >>

\* Step 3c: await manager.broadcast(json.dumps(...)), up to its first await.
Broadcast(s) ==
  /\ pc[s] = "broadcast"
  /\ snapshot' = [snapshot EXCEPT ![s] = Members(active_connections)]
  /\ LoopTurn(s, 0)
  /\ UNCHANGED << services, queries, store, sinks, ws_pc, chan, disconnect_exc, locals >>

\* A send of the broadcast is over and the loop takes its next turn.
BroadcastNext(s) ==
  /\ pc[s] = "sending"
  /\ LoopTurn(s, bidx[s])
  /\ UNCHANGED << services, queries, store, sinks, ws_pc, chan, disconnect_exc, locals,
                  snapshot >>

----------------------------------------------------------------------------
\* ConnectionManager and websocket_endpoint

\* A registry that puts a new connection at the head of the list.
ConnectFront(list, c) == << c >> \o list

\* connect: await websocket.accept(); active_connections.append(websocket).
Connect(list, c) == Append(list, c)

\* A registry whose disconnect drops the newest member, whoever asked.
DisconnectPop(list, c) ==
  [list |-> SubSeq(list, 1, Len(list) - 1), exc |-> "none"]

\* disconnect: active_connections.remove(websocket).  list.remove raises
\* ValueError when the element is not in the list.
Disconnect(list, c) ==
  IF c \in Members(list)
    THEN [list |-> RemoveAt(list, IndexOf(list, c)), exc |-> "none"]
    ELSE [list |-> list, exc |-> "ValueError"]

\* websocket_endpoint: await manager.connect(websocket).  When accept raises,
\* the handler ends before the append.
WsConnect(c, ok) ==
  /\ ws_pc[c] = "new"
  /\ ok \/ MayFail
  /\ IF ok
       THEN /\ active_connections' = Connect(active_connections, c)
            /\ ws_pc' = [ws_pc EXCEPT ![c] = "open"]
            /\ UNCHANGED chan
       ELSE /\ ws_pc' = [ws_pc EXCEPT ![c] = "crashed"]
            /\ chan' = [chan EXCEPT ![c] = "down"]
            /\ UNCHANGED active_connections
  /\ UNCHANGED << services, queries, store, sinks, disconnect_exc, pc, locals, response,
                  steps, bcast >>

\* The client closes the socket (or the link drops) while the handler waits
\* in receive_text: sends to the connection fail from now on.
ClientClose(c) ==
  /\ ws_pc[c] = "open"
  /\ chan[c] = "up"
  /\ MayFail
  /\ chan' = [chan EXCEPT ![c] = "down"]
  /\ UNCHANGED << services, queries, store, sinks, active_connections, ws_pc,
                  disconnect_exc, pc, locals, response, steps, bcast >>

\* receive_text raises WebSocketDisconnect: manager.disconnect(websocket).
WsDisconnect(c) ==
  /\ ws_pc[c] = "open"
  /\ chan[c] = "down"
  /\ LET r == Disconnect(active_connections, c) IN
       /\ active_connections' = r.list
       /\ disconnect_exc' = r.exc
  /\ ws_pc' = [ws_pc EXCEPT ![c] = "closed"]
  /\ UNCHANGED << services, queries, store, sinks, chan, pc, locals, response, steps, bcast >>

\* receive_text or send_personal_message raises another exception (a binary
\* frame has no "text" key, a send on a closing socket): the handler ends in
\* no except clause and the server closes the socket.
WsError(c) ==
  /\ ws_pc[c] = "open"
  /\ chan[c] = "down" \/ MayFail
  /\ ws_pc' = [ws_pc EXCEPT ![c] = "crashed"]
  /\ chan' = [chan EXCEPT ![c] = "down"]
  /\ UNCHANGED << services, queries, store, sinks, active_connections, disconnect_exc,
                  pc, locals, response, steps, bcast >>

\* A direct call of manager.disconnect(c) by a holder of the handle c.
Unregister(c) ==
  /\ ws_pc[c] # "new"
  /\ LET r == Disconnect(active_connections, c) IN
       /\ active_connections' = r.list
       /\ disconnect_exc' = r.exc
  /\ UNCHANGED << services, queries, store, sinks, ws_pc, chan, pc, locals, response,
                  steps, bcast >>

----------------------------------------------------------------------------
Next ==
  \/ \E s \in Subs, e \in Events, ok \in BOOLEAN : Archive(s, e, ok)
  \/ \E s \in Subs, o \in {"commit_failed", "refresh_failed", "ok"} : Persist(s, o)
  \/ \E s \in Subs, ok \in BOOLEAN : Publish(s, ok)
  \/ \E s \in Subs, ok \in BOOLEAN : IndexDoc(s, ok)
  \/ \E s \in Subs : Broadcast(s)
  \/ \E s \in Subs : BroadcastNext(s)
  \/ \E c \in Conns, ok \in BOOLEAN : WsConnect(c, ok)
  \/ \E c \in Conns : ClientClose(c)
  \/ \E c \in Conns : WsDisconnect(c)
  \/ \E c \in Conns : WsError(c)

Spec == Init /\ [][Next]_vars

\* The registry driven by the endpoint and by direct calls of disconnect.
NextRegistry ==
  \/ \E c \in Conns, ok \in BOOLEAN : WsConnect(c, ok)
  \/ \E c \in Conns : ClientClose(c)
  \/ \E c \in Conns : WsDisconnect(c)
  \/ \E c \in Conns : WsError(c)
  \/ \E c \in Conns : Unregister(c)

SpecRegistry == Init /\ [][NextRegistry]_vars

----------------------------------------------------------------------------
\* Query layer: /audit/search, /audit/records, the GraphQL Query type, /health.

\* The keyword arguments the constructors below are called with.
DocKeys == {"id", "event_type", "user_id", "action", "timestamp", "ipfs_hash"}

\* The fields of the strawberry type AuditRecordType, none with a default.
AuditRecordTypeFields ==
  {"id", "event_type", "user_id", "action", "timestamp", "transaction_hash",
   "block_number", "ipfs_hash", "verified"}

\* AuditRecordType(**kwargs): the generated __init__ takes exactly the fields
\* of the type; a missing or an unknown keyword raises TypeError.
AuditRecordTypeRaises(keys) == keys # AuditRecordTypeFields

\* The document a row was indexed as (the body of line 259 repeats the row).
DocOf(row) == [doc_id |-> row.id, body |-> row]

\* multi_match of q on the fields event_type, user_id and action.
Matches(body, q) == q \in {body.event_type, body.user_id, body.action}

Matching(q) == { d.body : d \in { x \in index : Matches(x.body, q) } }

\* The search terms and limits a caller may send.
Terms == {"login", "u2", "refund"}
Limits == 0..MaxRows

\* The pages of at most limit hits the index may return (its ranking is its own).
Pages(q, limit) ==
  { h \in SUBSET Matching(q) :
      Cardinality(h) = IF Cardinality(Matching(q)) < limit
                         THEN Cardinality(Matching(q)) ELSE limit }

\* GET /audit/search: 503 without a handle, 500 when es.search raises.
search_audit_records(q, limit, ok) ==
  /\ \E h \in Pages(q, limit) :
       query' = [NoQuery EXCEPT !.op = "search_audit_records", !.q = q,
                                !.limit = limit, !.index_ok = ok,
                                !.status = IF ~es THEN 503 ELSE IF ~ok THEN 500 ELSE 200,
                                !.hits = IF es /\ ok THEN h ELSE {}]
  /\ UNCHANGED << services, health, store, sinks, registry, pc, locals, response,
                  steps, bcast >>

\* Query.search_records: [] without a handle; [] from the except clause when
\* es.search or the construction of an AuditRecordType from a hit raises.
search_records(q, ok) ==
  /\ query' = [NoQuery EXCEPT !.op = "search_records", !.q = q, !.index_ok = ok,
                              !.status = 200,
                              !.hits = IF es /\ ok /\ (Matching(q) = {}
                                                       \/ ~AuditRecordTypeRaises(DocKeys))
                                         THEN Matching(q) ELSE {}]
  /\ UNCHANGED << services, health, store, sinks, registry, pc, locals, response,
                  steps, bcast >>

\* The keys of record.__dict__ of a loaded AuditRecord: its columns and the
\* ORM's own _sa_instance_state.
InstanceDictKeys ==
  {"id", "event_type", "user_id", "action", "timestamp", "transaction_hash",
   "block_number", "ipfs_hash", "verified", "gas_used", "metadata",
   "_sa_instance_state"}

\* The fields of the pydantic model AuditRecordResponse that have no default.
AuditRecordResponseRequired ==
  {"id", "event_type", "user_id", "action", "timestamp", "verified"}

\* AuditRecordResponse(**kwargs): a pydantic model ignores unknown keywords
\* and raises only when a required field is missing.
AuditRecordResponseRaises(keys) == ~(AuditRecordResponseRequired \subseteq keys)

\* query.filter(AuditRecord.event_type == event_type) under "if event_type:",
\* and the same for user_id: an empty or missing filter selects every row.
Filter(rows, event_type, user_id) ==
  LET Keep(r) == /\ (event_type # "" => r.event_type = event_type)
                 /\ (user_id # "" => r.user_id = user_id)
  IN SelectSeq(rows, Keep)

\* order_by(AuditRecord.timestamp.desc()).
RECURSIVE OrderByTimestampDesc(_)
OrderByTimestampDesc(rows) ==
  IF rows = << >> THEN << >>
  ELSE LET i == CHOOSE k \in 1..Len(rows) :
                  \A j \in 1..Len(rows) : rows[k].timestamp >= rows[j].timestamp
       IN << rows[i] >> \o OrderByTimestampDesc(RemoveAt(rows, i))

\* .limit(n).all()
Limit(rows, n) == SubSeq(rows, 1, IF Len(rows) < n THEN Len(rows) ELSE n)

\* The filters a caller may send ("" is a missing parameter).
EventTypes == {""} \cup { e.event_type : e \in Events }
UserIds == {""} \cup { e.user_id : e \in Events }

\* GET /audit/records.
get_audit_records(limit, event_type, user_id) ==
  /\ LET records == Limit(OrderByTimestampDesc(Filter(store, event_type, user_id)), limit)
         raised == records # << >> /\ AuditRecordResponseRaises(InstanceDictKeys)
     IN query' = [NoQuery EXCEPT !.op = "get_audit_records", !.limit = limit,
                                 !.event_type = event_type, !.user_id = user_id,
                                 !.status = IF raised THEN 500 ELSE 200,
                                 !.records = IF raised THEN << >> ELSE records]
  /\ UNCHANGED << services, health, store, sinks, registry, pc, locals, response,
                  steps, bcast >>

\* Query.audit_records: the list comprehension builds an AuditRecordType from
\* record.__dict__ of every row; a TypeError leaves the resolver.
audit_records(limit) ==
  /\ LET records == Limit(OrderByTimestampDesc(store), limit)
         raised == records # << >> /\ AuditRecordTypeRaises(InstanceDictKeys)
     IN query' = [NoQuery EXCEPT !.op = "audit_records", !.limit = limit,
                                 !.status = IF raised THEN 500 ELSE 200,
                                 !.records = IF raised THEN << >> ELSE records]
  /\ UNCHANGED << services, health, store, sinks, registry, pc, locals, response,
                  steps, bcast >>

\* GET /health: every flag is "handle is not None"; ethereum also asks the
\* node (connected is the answer of w3.isConnected()).
health_check(connected) ==
  /\ LET services_ == [database |-> TRUE,
                       kafka |-> kafka_producer,
                       elasticsearch |-> es,
                       ethereum |-> IF w3 THEN w3 /\ connected ELSE FALSE,
                       ipfs |-> ipfs_client]
         all == \A k \in DOMAIN services_ : services_[k]
     IN health' = [status |-> IF all THEN "healthy" ELSE "degraded",
                   database |-> services_.database,
                   kafka |-> services_.kafka,
                   elasticsearch |-> services_.elasticsearch,
                   ethereum |-> services_.ethereum,
                   ipfs |-> services_.ipfs]
  /\ UNCHANGED << services, query, store, sinks, registry, pc, locals, response,
                  steps, bcast >>

\* The tables the queries are asked of: rows 1..n as create_event stores them.
StoredRow(i, e) ==
  [id |-> i, event_type |-> e.event_type, user_id |-> e.user_id, action |-> e.action,
   timestamp |-> i, ipfs_hash |-> IF ipfs_client THEN Cid(e) ELSE None]

Tables ==
  UNION { { [i \in 1..n |-> StoredRow(i, f[i])] : f \in [1..n -> Events] } : n \in 0..MaxRows }

\* The state after some submissions have ended: a table, and the documents of
\* the rows whose upsert went through.
InitQuery ==
  /\ init_failed \in {"none"} \cup Members(Constructors)
  /\ kafka_producer = HandleAfterInit("kafka", init_failed)
  /\ es = HandleAfterInit("es", init_failed)
  /\ w3 = HandleAfterInit("w3", init_failed)
  /\ ipfs_client = HandleAfterInit("ipfs", init_failed)
  /\ store \in Tables
  /\ index \in { { DocOf(store[i]) : i \in I } :
                  I \in IF es THEN SUBSET (1..Len(store)) ELSE {{}} }
  /\ stream = << >>
  /\ active_connections = << >>
  /\ ws_pc = [c \in Conns |-> "new"]
  /\ chan = [c \in Conns |-> "up"]
  /\ disconnect_exc = "none"
  /\ pc = [s \in Subs |-> "idle"]
  /\ event = [s \in Subs |-> NoEvent]
  /\ ipfs_hash = [s \in Subs |-> None]
  /\ audit_record = [s \in Subs |-> NoRecord]
  /\ response = [s \in Subs |-> NoResponse]
  /\ steps = [s \in Subs |-> NoSteps]
  /\ bidx = [s \in Subs |-> 0]
  /\ snapshot = [s \in Subs |-> {}]
  /\ sends = [s \in Subs |-> << >>]
  /\ query = NoQuery
  /\ health = NoHealth

NextQuery ==
  \/ \E q \in Terms, limit \in Limits, ok \in BOOLEAN : search_audit_records(q, limit, ok)
  \/ \E q \in Terms, ok \in BOOLEAN : search_records(q, ok)
  \/ \E limit \in Limits, et \in EventTypes, uid \in UserIds :
       get_audit_records(limit, et, uid)
  \/ \E limit \in Limits : audit_records(limit)
  \/ \E connected \in BOOLEAN : health_check(connected)

SpecQuery == InitQuery /\ [][NextQuery]_vars

----------------------------------------------------------------------------
\* What the claims speak of.

\* The connections a send of s's broadcast was attempted on, and those that
\* got the payload.
Attempted(s) == { sends[s][i].conn : i \in 1..Len(sends[s]) }
Delivered(s) == { sends[s][i].conn : i \in { j \in 1..Len(sends[s]) : sends[s][j].ok } }
FailedSends(s) == { sends[s][i].conn : i \in { j \in 1..Len(sends[s]) : ~sends[s][j].ok } }

\* A fan-out call was made for submission s: a publish, an upsert or a send.
FanOutActed(s) ==
  \/ steps[s].kafka \in {"ok", "failed"}
  \/ steps[s].es \in {"ok", "failed"}
  \/ sends[s] # << >>

\* A fan-out product of the row with this id exists in a sink.
InSinks(id) ==
  \/ \E i \in 1..Len(stream) : stream[i].id = id
  \/ \E d \in index : d.doc_id = id
  \/ \E s \in Subs : \E i \in 1..Len(sends[s]) : sends[s][i].payload.data.id = id

PersistFailed(s) == steps[s].persist \in {"commit_failed", "refresh_failed"}

\* C1: when the persist step of a submission fails, the caller gets the
\* failure and nothing is published, indexed or broadcast for it; a fan-out
\* call of a submission happens only after its persist step succeeded.
C1_PersistGatesFanOut ==
  \A s \in Subs :
    /\ PersistFailed(s) =>
         /\ response[s].status = 500
         /\ pc[s] = "done"
         /\ ~FanOutActed(s)
         /\ steps[s].broadcast = "none"
         /\ steps[s].row # 0 => ~InSinks(steps[s].row)
    /\ (FanOutActed(s) \/ pc[s] \in {"publish", "index", "broadcast", "sending"})
         => steps[s].persist = "ok"

\* A submission whose commit failed has ended while another one fanned out.
C1_Witness ==
  \E s, t \in Subs :
    /\ steps[s].persist = "commit_failed" /\ pc[s] = "done"
    /\ steps[t].kafka = "ok" /\ steps[t].es = "ok" /\ Delivered(t) # {}

\* C2: the reported outcome is all-or-nothing: a reported failure means no
\* row of the submission is in the store and no fan-out was attempted, and
\* a committed row means the caller gets success.
C2_AllOrNothing ==
  \A s \in Subs :
    /\ response[s].status = 500 => steps[s].row = 0 /\ ~FanOutActed(s)
    /\ (steps[s].row # 0 /\ pc[s] = "done") => response[s].status = 200

\* C3: when the archive adapter is absent or its call fails, the persist
\* step still runs, and when it succeeds the submission succeeds with no
\* archive reference in the stored row and in the response.
C3_ArchiveFailureTolerated ==
  \A s \in Subs :
    steps[s].archive \in {"absent", "failed"} =>
      /\ pc[s] = "persist" \/ steps[s].persist # "none"
      /\ ipfs_hash[s] = None
      /\ steps[s].persist = "ok" =>
           /\ store[steps[s].row].ipfs_hash = None
           /\ response[s].status # 500
           /\ pc[s] = "done" => response[s] = [status |-> 200, id |-> steps[s].row,
                                               ipfs_hash |-> None]

\* A submission whose archive call raised was answered with success.
C3_Witness ==
  \E s \in Subs : steps[s].archive = "failed" /\ response[s].status = 200

\* The part of C4 that is about the three sinks only: once the persist step
\* succeeded, each sink whose handle exists is tried whatever happened to the
\* others, and the caller gets success.
FanOutIsolated(s) ==
  (steps[s].persist = "ok" /\ pc[s] = "done") =>
    /\ response[s].status = 200
    /\ kafka_producer => steps[s].kafka \in {"ok", "failed"}
    /\ es => steps[s].es \in {"ok", "failed"}
    /\ steps[s].broadcast = "returned"
    /\ steps[s].es = "ok" => \E d \in index : d = EsDoc(s)

\* The subscribers still registered on a working channel after s's broadcast.
LiveSubscribers(s) ==
  { c \in snapshot[s] : c \in Members(active_connections) /\ chan[c] = "up" }

\* C4: after a successful persist step the failure or absence of one sink
\* neither keeps the other sinks from being tried nor changes the success;
\* with the stream failing and index and broadcast healthy, the index has
\* the document and every active subscriber has received the broadcast.
C4_FanOutIsolation ==
  \A s \in Subs :
    /\ FanOutIsolated(s)
    /\ (pc[s] = "done" /\ steps[s].kafka = "failed" /\ steps[s].es = "ok"
          /\ FailedSends(s) = {})
         => LiveSubscribers(s) \subseteq Delivered(s)

\* C5: a connection whose send failed during a broadcast is out of the
\* active set when that broadcast returns.
C5_FailedSendDropped ==
  \A s \in Subs :
    steps[s].broadcast = "returned" =>
      FailedSends(s) \cap Members(active_connections) = {}

\* C6: a broadcast attempts a send on every member of the active set at the
\* time of the call (other than one unregistered meanwhile), whatever other
\* connections register or unregister between its sends.
C6_SnapshotSemantics ==
  \A s \in Subs :
    steps[s].broadcast = "returned" =>
      (snapshot[s] \cap Members(active_connections)) \subseteq Attempted(s)

\* C7: a subscriber registered before a broadcast was issued, and registered
\* with an open session and a working channel until it finished, has
\* received it.
C7_RegisteredReceives ==
  \A s \in Subs : \A c \in snapshot[s] :
    (steps[s].broadcast = "returned" /\ ws_pc[c] = "open" /\ chan[c] = "up"
       /\ c \in Members(active_connections))
      => c \in Delivered(s)

\* C8: disconnect called with a handle that is not in the active set raises
\* no error.
C8_UnregisterIdempotent == disconnect_exc = "none"

\* C9: the caller's result does not wait for the fan-out: no publish, upsert
\* or subscriber send of a submission is over while its response is still
\* to be produced.
C9_ResponseNotDelayed ==
  \A s \in Subs : FanOutActed(s) => response[s].status # 0

\* C10: a success carries the id of the row stored for this submission's
\* event and that row's archive reference; two submissions never get the
\* same id.
C10_ResponseIsOwnRecord ==
  \A s \in Subs :
    response[s].status = 200 =>
      /\ response[s].id = steps[s].row
      /\ response[s].id \in 1..Len(store)
      /\ store[response[s].id] =
           [id |-> response[s].id, event_type |-> event[s].event_type,
            user_id |-> event[s].user_id, action |-> event[s].action,
            timestamp |-> audit_record[s].timestamp,
            ipfs_hash |-> response[s].ipfs_hash]
      /\ response[s].ipfs_hash =
           IF steps[s].archive = "ok" THEN Cid(event[s]) ELSE None
      /\ \A t \in Subs \ {s} : response[t].status = 200 => response[t].id # response[s].id

\* Two submissions with different events and archive outcomes, the second
\* committed while the first one was in its broadcast, both answered.
C10_Witness ==
  \E s, t \in Subs :
    /\ response[s].status = 200 /\ response[t].status = 200
    /\ event[s] # event[t]
    /\ response[s].ipfs_hash # None /\ response[t].ipfs_hash = None
    /\ response[s].id < response[t].id
    /\ Attempted(s) # {} /\ Attempted(t) # {}

IndexUnavailable == ~es \/ ~query.index_ok

IsSearch == query.op \in {"search_audit_records", "search_records"}

\* C12: on every search entry point a search of an unavailable index fails
\* (it does not answer with an empty result), and an empty result means that
\* a healthy index had no match.
C12_SearchUnavailable ==
  IsSearch =>
    /\ IndexUnavailable => query.status \in {500, 503}
    /\ (query.status = 200 /\ query.hits = {} /\ (query.limit > 0 \/ query.op = "search_records"))
         => (~IndexUnavailable /\ Matching(query.q) = {})

\* The rows of the table that agree with every filter the call supplied.
MatchingRows ==
  { i \in 1..Len(store) :
      /\ (query.event_type # "" => store[i].event_type = query.event_type)
      /\ (query.user_id # "" => store[i].user_id = query.user_id) }

\* The answer is the min(limit, number of matching rows) matching rows with the
\* latest timestamps, latest first.
ListingCorrect ==
  /\ query.status = 200
  /\ Len(query.records) = IF Cardinality(MatchingRows) < query.limit
                            THEN Cardinality(MatchingRows) ELSE query.limit
  /\ \A k \in 1..Len(query.records) :
       /\ \E i \in MatchingRows : store[i] = query.records[k]
       /\ k > 1 => query.records[k - 1].timestamp > query.records[k].timestamp
  /\ \A i \in MatchingRows :
       (\A k \in 1..Len(query.records) : query.records[k] # store[i])
         => \A k \in 1..Len(query.records) : store[i].timestamp < query.records[k].timestamp
  /\ (query.limit >= Len(store) /\ query.event_type = "" /\ query.user_id = "")
       => query.records = [k \in 1..Len(store) |-> store[Len(store) + 1 - k]]

\* GET /audit/records alone answers as C13 says.
RestListingCorrect == query.op = "get_audit_records" => ListingCorrect

\* C13: on both listing entry points the answer is the min(limit, matching)
\* matching rows with the latest timestamps in descending order (all rows in
\* reverse insertion order when the limit allows), never an error.
C13_ListRecords ==
  query.op \in {"get_audit_records", "audit_records"} => ListingCorrect

\* The constructor of an adapter returned: none raised, or the one that
\* raised comes after it in the block.
ConstructedOk(name) ==
  \/ init_failed = "none"
  \/ IndexOf(Constructors, name) < IndexOf(Constructors, init_failed)

\* C14: the flag /health reports for the stream bus, the search index and the
\* archive is true exactly when that adapter's own constructor succeeded,
\* whatever happened to the other constructors.
C14_HealthIndependent ==
  health.status # "none" =>
    /\ health.kafka = ConstructedOk("kafka")
    /\ health.elasticsearch = ConstructedOk("es")
    /\ health.ipfs = ConstructedOk("ipfs")

\* C15: within one broadcast no connection is sent the payload twice,
\* whatever connects and disconnects happen between its sends; when the
\* membership at the end is the membership at the call and no send failed,
\* every registered connection has received its one copy.
C15_AtMostOnce ==
  \A s \in Subs :
    /\ \A i, j \in 1..Len(sends[s]) :
         sends[s][i].conn = sends[s][j].conn => i = j
    /\ (steps[s].broadcast = "returned" /\ FailedSends(s) = {}
          /\ snapshot[s] = Members(active_connections))
         => snapshot[s] \subseteq Delivered(s)

\* A broadcast over two registered connections that delivered to both.
C15_Witness ==
  \E s \in Subs :
    /\ steps[s].broadcast = "returned"
    /\ snapshot[s] = Conns
    /\ Members(active_connections) = Conns
    /\ Delivered(s) = Conns

\* The archive reference submission s works with, as the archive step left it.
ArchiveRefOf(s) == IF steps[s].archive = "ok" THEN Cid(event[s]) ELSE None

\* The archive reference is the same in every place submission s wrote it.
SameArchiveRef(s) ==
  /\ ipfs_hash[s] = ArchiveRefOf(s)
  /\ steps[s].row # 0 => store[steps[s].row].ipfs_hash = ipfs_hash[s]
  /\ \A i \in 1..Len(stream) :
       (steps[s].row # 0 /\ stream[i].id = steps[s].row) => stream[i].ipfs_hash = ipfs_hash[s]
  /\ \A d \in index :
       (steps[s].row # 0 /\ d.doc_id = steps[s].row) => d.body.ipfs_hash = ipfs_hash[s]
  /\ response[s].status = 200 => response[s].ipfs_hash = ipfs_hash[s]

\* Once the archive step of s is over, no step redoes it or changes its
\* result, and the stored row keeps its reference.
ArchiveNotRedone(s) ==
  steps[s].archive # "none" =>
    /\ steps'[s].archive = steps[s].archive
    /\ ipfs_hash'[s] = ipfs_hash[s]
    /\ event'[s] = event[s]
    /\ steps[s].row # 0 => store'[steps[s].row].ipfs_hash = store[steps[s].row].ipfs_hash

\* C16: the archive step of a submission happens at most once and before its
\* persist step; the archive reference it left is never changed afterwards and
\* is the one in the stored record, the stream message, the index document
\* and the response.
C16_ArchiveOnceBeforePersist ==
  /\ [](\A s \in Subs :
          /\ steps[s].persist # "none" => steps[s].archive # "none"
          /\ SameArchiveRef(s))
  /\ [][\A s \in Subs : ArchiveNotRedone(s)]_vars

\* A submission whose archive reference reached the record, the stream, the
\* index and the response.
C16_Witness ==
  \E s \in Subs :
    /\ pc[s] = "done"
    /\ steps[s].archive = "ok"
    /\ steps[s].kafka = "ok"
    /\ steps[s].es = "ok"
    /\ response[s].status = 200
    /\ response[s].ipfs_hash = Cid(event[s])

\* The active set agrees with the sessions: no member twice, every open
\* session a member, no session that has not connected or that has
\* unregistered a member.
RegistryConsistent ==
  /\ \A i, j \in 1..Len(active_connections) :
       active_connections[i] = active_connections[j] => i = j
  /\ \A c \in Conns :
       /\ ws_pc[c] = "open" => c \in Members(active_connections)
       /\ ws_pc[c] \in {"new", "closed"} => c \notin Members(active_connections)

\* One step changes the membership of c only by c's own connect or c's own
\* unregister, and each of these does change it; a step of a broadcast leaves
\* the list as it is.
RegistryStep ==
  /\ \A c \in Conns :
       LET was == c \in Members(active_connections)
           is == c \in Members(active_connections') IN
         /\ (~was /\ is) => (ws_pc[c] = "new" /\ ws_pc'[c] = "open")
         /\ (was /\ ~is) => (ws_pc[c] = "open" /\ ws_pc'[c] = "closed")
         /\ (ws_pc[c] = "new" /\ ws_pc'[c] = "open") => is
         /\ (ws_pc[c] # "closed" /\ ws_pc'[c] = "closed") => ~is
  /\ (\E s \in Subs : sends'[s] # sends[s] \/ steps'[s].broadcast # steps[s].broadcast)
       => active_connections' = active_connections

\* C17: under every interleaving of connects, disconnects and broadcasts the
\* active set holds each connection at most once and exactly the connections
\* that connected and have not unregistered; no register or unregister is
\* lost and a broadcast neither adds nor removes a member.
C17_RegistryConsistency == []RegistryConsistent /\ [][RegistryStep]_vars

\* A broadcast in progress while one connection is registered and the other
\* has unregistered.
C17_Witness ==
  \E s \in Subs : \E c, d \in Conns :
    /\ pc[s] = "sending"
    /\ ws_pc[c] = "closed"
    /\ ws_pc[d] = "open"
    /\ active_connections = << d >>

\* The connection the step sends to, when the step is a send of submission s.
SendsTo(s, c) ==
  /\ Len(sends'[s]) = Len(sends[s]) + 1
  /\ sends'[s][Len(sends'[s])].conn = c

\* C18: no send is attempted on a connection that has been closed, by its
\* unregister or by a failed send, and a closed connection is not in the
\* active set.
C18_ClosedNeverSent ==
  /\ [](\A c \in Conns :
          (ws_pc[c] = "closed" \/ \E s \in Subs : c \in FailedSends(s))
            => c \notin Members(active_connections))
  /\ [][\A s \in Subs : \A c \in Conns :
          SendsTo(s, c) =>
            /\ ws_pc[c] # "closed"
            /\ \A t \in Subs : c \notin FailedSends(t)]_vars

\* C19: a connection whose websocket handler has ended, by a client
\* disconnect or by any other error, is not a member of the active set.
C19_MembershipIsSession ==
  \A c \in Conns :
    ws_pc[c] \in {"closed", "crashed"} => c \notin Members(active_connections)

\* The projection carries the id of a stored record and its event_type,
\* user_id and action.
ProjectionOfStored(data) ==
  /\ data.id \in 1..Len(store)
  /\ store[data.id].id = data.id
  /\ store[data.id].event_type = data.event_type
  /\ store[data.id].user_id = data.user_id
  /\ store[data.id].action = data.action

\* C20: every stream message, index document and broadcast payload carries
\* the id of a record in the store and agrees with it on event_type, user_id
\* and action; the index document is keyed by that id; a submission produces
\* at most one stream message, one index document and one broadcast.
C20_ProjectionsFollowRecord ==
  /\ \A i \in 1..Len(stream) : ProjectionOfStored(stream[i])
  /\ \A d \in index : d.doc_id = d.body.id /\ ProjectionOfStored(d.body)
  /\ \A s \in Subs : \A i \in 1..Len(sends[s]) :
       /\ ProjectionOfStored(sends[s][i].payload.data)
       /\ sends[s][i].payload.data.id = steps[s].row
  /\ \A i, j \in 1..Len(stream) : stream[i].id = stream[j].id => i = j
  /\ \A d1, d2 \in index : d1.doc_id = d2.doc_id => d1 = d2
  /\ \A s, t \in Subs : (s # t /\ steps[s].row # 0) => steps[s].row # steps[t].row

\* Two records are stored and one submission has produced all three of its
\* projections.
C20_Witness ==
  \E s \in Subs :
    /\ Len(store) = 2
    /\ steps[s].kafka = "ok"
    /\ steps[s].es = "ok"
    /\ Delivered(s) # {}
    /\ \E i \in 1..Len(stream) : stream[i].id = steps[s].row
    /\ \E d \in index : d.doc_id = steps[s].row

============================================================================
